---- MODULE Spec2Model ----
(***************************************************************************)
(* A model of the poll lifecycle of src/cogs/schedule.py: the cog          *)
(* ScheduleCog with its registry `collecting`, the command handlers        *)
(* `schedule` and `addup`, the loop body `update_presence`, the            *)
(* aggregation `addUpVotes` and the helpers `generate_schedule_dates` and  *)
(* `create_event`.                                                         *)
(*                                                                         *)
(* Every handler is a coroutine on one asyncio event loop: the code        *)
(* between two awaits runs atomically, and at an await the coroutine is    *)
(* suspended on a collaborator call that either returns or raises.  A      *)
(* handler is therefore two actions: its call (from entry to the first     *)
(* await, return or exception) and its resumption (from one await to the   *)
(* next).  Python exceptions are modelled as outcomes: a frame that raised *)
(* holds the exception's type in `exc`.                                    *)
(*                                                                         *)
(* Time is counted in minutes.  A datetime is a record [t, aware]: `t` is  *)
(* the wall-clock minute and `aware` tells whether the object carries a    *)
(* tzinfo; Python refuses to order a naive and an aware datetime.          *)
(***************************************************************************)
EXTENDS Integers, Sequences, FiniteSets, TLC

(***************************************************************************)
(* Optional values: None is the empty sequence, a present value v is <<v>>.*)
(***************************************************************************)
None == <<>>
Some(v) == <<v>>
IsNone(o) == o = <<>>
Val(o) == o[1]

(***************************************************************************)
(* datetime / timedelta                                                    *)
(***************************************************************************)
MinutesPerHour == 60
HoursPerDay == 24
DaysPerWeek == 7
DAY == HoursPerDay * MinutesPerHour
HOUR == MinutesPerHour

Naive(t) == [t |-> t, aware |-> FALSE]
Aware(t) == [t |-> t, aware |-> TRUE]

\* datetime.replace(hour=0, minute=0, second=0)
Midnight(t) == (t \div DAY) * DAY
\* datetime.weekday(): 0 is Monday; day 0 of the model is a Monday
weekday(t) == (t \div DAY) % DaysPerWeek
\* timedelta.days of (b - a): floor division
DaysBetween(a, b) == (b - a) \div DAY
\* Python orders two datetimes only when both are naive or both are aware
Comparable(a, b) == a.aware = b.aware

\* The zones the model knows, as their distance in minutes from the host's
\* local zone (the host runs in Asia/Tokyo).
TimeZones == {"Asia/Tokyo", "UTC"}
TzShift(tz) == IF tz = "UTC" THEN 0 - 9 * HOUR ELSE 0
\* datetime.astimezone(gettz(tz)): a naive datetime is read as host-local time;
\* the result is aware and shows the wall clock of tz.
astimezone(d, tz) == Aware(d.t + TzShift(tz))

(***************************************************************************)
(* ScheduleCog class attributes                                            *)
(***************************************************************************)
DEFAULT_COLLECT_RANGE == 7
DEFAULT_SCHEDULE_RANGE == 60
DebugVoteMinutes == 3
DefaultTimeRangeStart == 21
DefaultTimeRangeEnd == 23
FirstHour == 0
LastHour == 23
\* len(self.reaction_emojis): nine keycap digits and 26 regional indicators
NumberEmojis == 9
LetterEmojis == 26
ReactionCapacity == NumberEmojis + LetterEmojis

\* jpholiday.is_holiday: the holiday-lookup collaborator, a fixed calendar
HolidayDays == {8}
is_holiday(t) == (t \div DAY) \in HolidayDays

FILTER_TYPE == {"all", "weekday", "weekend", "holydays"}
ApplyFilter(name, t) ==
    CASE name = "all" -> TRUE
      [] name = "weekday" -> weekday(t) < 5
      [] name = "weekend" -> weekday(t) >= 5
      [] name = "holydays" -> weekday(t) >= 5 \/ is_holiday(t)

(***************************************************************************)
(* generate_schedule_dates.  `now` is datetime.now(); `self_range` is the  *)
(* optional instance attribute self.schedule_range.  The result is         *)
(* [exc, dates]: exc is "none" or the exception raised.                    *)
(***************************************************************************)
RECURSIVE WalkDays(_, _, _, _, _, _)
WalkDays(i, range, start, collect_end, filter, acc) ==
    IF i >= range THEN [exc |-> "none", dates |-> acc]
    ELSE LET day == Aware(start.t + i * DAY)
         IN  IF ~ApplyFilter(filter, day.t)
             THEN WalkDays(i + 1, range, start, collect_end, filter, acc)
             ELSE IF ~Comparable(day, collect_end)
                  THEN [exc |-> "TypeError", dates |-> <<>>]
                  ELSE WalkDays(i + 1, range, start, collect_end, filter,
                                IF day.t > collect_end.t THEN Append(acc, day) ELSE acc)

generate_schedule_dates(now, self_range, start_date, end_date, schedule_range, collect_end_date, filter, timezone) ==
    LET start0 == IF IsNone(start_date) THEN Naive(now) ELSE Val(start_date)
        start == Aware(Midnight(astimezone(start0, timezone).t))
        endd == Aware(Midnight(astimezone(Val(end_date), timezone).t))
        collect_end == IF IsNone(collect_end_date)
                       THEN Naive(Midnight(now + DEFAULT_COLLECT_RANGE * DAY))
                       ELSE Val(collect_end_date)
    IN  IF IsNone(end_date) /\ IsNone(schedule_range) /\ IsNone(self_range)
        THEN [exc |-> "AttributeError", dates |-> <<>>]
        ELSE LET range == IF ~IsNone(end_date) THEN DaysBetween(start.t, endd.t) + 1
                          ELSE IF IsNone(schedule_range) THEN Val(self_range)
                          ELSE Val(schedule_range)
             IN  WalkDays(0, range, start, collect_end, filter, <<>>)

(***************************************************************************)
(* The tally of addUpVotes: every fetched reaction count less one, and the *)
(* first index (0-based) that holds the maximum.                           *)
(***************************************************************************)
ReactionResult(counts) == [i \in 1..Len(counts) |-> counts[i] - 1]

RECURSIVE SeqMax(_)
SeqMax(s) ==
    IF Len(s) = 1 THEN s[1]
    ELSE LET m == SeqMax(Tail(s)) IN IF s[1] >= m THEN s[1] ELSE m

\* A list.index that returned the largest index holding x.
ListIndexLast(s, x) ==
    (CHOOSE i \in 1..Len(s) : s[i] = x /\ \A j \in (i + 1)..Len(s) : s[j] # x) - 1

\* list.index(x): the smallest 0-based index holding x
ListIndex(s, x) == (CHOOSE i \in 1..Len(s) : s[i] = x /\ \A j \in 1..(i - 1) : s[j] # x) - 1

\* A tally that took the first candidate when there is nothing to count.
MaxReactionDateIndexOrFirst(result) ==
    [exc |-> "none",
     index |-> IF Len(result) = 0 THEN 0 ELSE ListIndex(result, SeqMax(result))]

\* reaction_result.index(max(reaction_result)); max of an empty list raises ValueError
MaxReactionDateIndex(result) ==
    IF Len(result) = 0 THEN [exc |-> "ValueError", index |-> 0]
    ELSE [exc |-> "none", index |-> ListIndex(result, SeqMax(result))]

(***************************************************************************)
(* create_event: the checks made before guild.create_scheduled_event is    *)
(* awaited.  "none" means the publisher is called.                         *)
(***************************************************************************)
CreateEventCheck(now, date, time_range) ==
    IF time_range[1] < FirstHour \/ time_range[1] > LastHour THEN "ValueError"
    ELSE IF time_range[2] < FirstHour \/ time_range[2] > LastHour THEN "ValueError"
    ELSE IF time_range[1] >= time_range[2] THEN "ValueError"
    ELSE IF ~Comparable(date, Naive(now)) THEN "TypeError"
    ELSE IF date.t < now THEN "ValueError"
    ELSE "none"

\* the start_time and end_time handed to guild.create_scheduled_event
EventTimes(date, time_range) ==
    [start_time |-> Midnight(date.t) + time_range[1] * HOUR,
     end_time |-> Midnight(date.t) + time_range[2] * HOUR]

(***************************************************************************)
(* State                                                                   *)
(***************************************************************************)
VARIABLES
    now,         \* datetime.now(), in minutes
    collecting,  \* self.collecting: the list of CollectingStatus objects
    cog,         \* the attributes schedule() writes on the cog itself
    msgs,        \* the messaging collaborator: message id -> message
    events,      \* the event publisher: the scheduled events created so far
    presence,    \* the status collaborator: the bot's last presence
    loop,        \* the tasks.Loop around update_presence
    tick,        \* the frame of the running update_presence iteration
    reqs,        \* the frames of the schedule() invocations
    adds,        \* the frames of the addup() invocations
    nextOid,     \* identity of the next CollectingStatus object constructed
    probe        \* a function applied on its own: its arguments and what it gave

vars == <<now, collecting, cog, msgs, events, presence, loop, tick, reqs, adds, nextOid,
          probe>>

\* Bounds of the model
MaxReq == 2
MaxAddup == 1
MaxAdvance == 2
MaxMsg == 5

Guilds == {"G1", "G2"}
ReqIds == 1..MaxReq
AddupIds == 1..MaxAddup
MsgIds == 1..MaxMsg

\* What an awaited collaborator call can do: return, or raise (IOError stands
\* for whatever the discord client raises: HTTPException, NotFound, a
\* transport error, InteractionResponded).
IoOutcomes == {"ok", "IOError"}

(***************************************************************************)
(* CollectingStatus                                                        *)
(***************************************************************************)
CollectingStatusRequired ==
    {"interaction", "hooked_message", "event_number", "start_date", "end_date",
     "collect_start_date", "collect_end_date", "author_text"}

Default(kw, key, dflt) == IF key \in DOMAIN kw THEN kw[key] ELSE dflt

\* CollectingStatus(**kw): binding the keyword arguments to __init__'s
\* parameters raises TypeError when a parameter without default is missing.
CollectingStatusInit(kw, oid) ==
    IF ~(CollectingStatusRequired \subseteq DOMAIN kw)
    THEN [exc |-> "TypeError", status |-> <<>>]
    ELSE [exc |-> "none",
          status |-> <<[oid |-> oid,
                        interaction |-> kw.interaction,
                        hooked_message |-> kw.hooked_message,
                        event_number |-> kw.event_number,
                        start_date |-> kw.start_date,
                        end_date |-> kw.end_date,
                        author_text |-> kw.author_text,
                        website_url |-> Default(kw, "website_url", ""),
                        dates |-> Default(kw, "dates", <<>>),
                        time_range |-> Default(kw, "time_range",
                                               <<DefaultTimeRangeStart, DefaultTimeRangeEnd>>),
                        timezone |-> Default(kw, "timezone", "Asia/Tokyo"),
                        collect_start_date |-> kw.collect_start_date,
                        collect_end_date |-> kw.collect_end_date]>>]

\* c.hooked_message.guild: the community a registered session belongs to
GuildOf(c) == c.interaction.guild

\* list.remove(x): drops the first element equal to x, ValueError when absent.
\* CollectingStatus defines no __eq__, so equality is object identity.
IndexOfStatus(coll, st) ==
    IF \E i \in 1..Len(coll) : coll[i].oid = st.oid
    THEN CHOOSE i \in 1..Len(coll) :
             coll[i].oid = st.oid /\ \A j \in 1..(i - 1) : coll[j].oid # st.oid
    ELSE 0

ListRemove(coll, st) ==
    LET i == IndexOfStatus(coll, st)
    IN  IF i = 0 THEN [exc |-> "ValueError", list |-> coll]
        ELSE [exc |-> "none",
              list |-> SubSeq(coll, 1, i - 1) \o SubSeq(coll, i + 1, Len(coll))]

(***************************************************************************)
(* Frames.  A frame is the state of one coroutine: where it is suspended   *)
(* (pc), how it ended (exc, resp) and its local variables.                 *)
(***************************************************************************)
BlankFrame ==
    [pc |-> "idle",      \* the await the coroutine is suspended at
     exc |-> "none",     \* the exception it raised
     resp |-> "none",    \* the error embed it answered with
     args |-> <<>>,      \* the command's arguments
     st |-> <<>>,        \* addUpVotes: status
     result |-> <<>>,    \* addUpVotes: reaction_result
     winner |-> 0,       \* addUpVotes: max_reaction_date_index
     report |-> FALSE,   \* addUpVotes: the tally-failure embed was delivered
     ev |-> <<>>,        \* create_event: the event being requested
     link |-> FALSE,     \* addUpVotes: the event link was posted
     k |-> 0,            \* update_presence: elements of the list already visited
     dates |-> <<>>,     \* schedule: dates
     msg |-> 0,          \* schedule: reaction_message
     j |-> 0,            \* schedule: reactions attached so far
     kw |-> <<>>]        \* schedule: the keyword arguments held for CollectingStatus

\* A coroutine that ends keeps its outcome; its locals other than the session
\* it worked on are gone.
Ended(f) ==
    [f EXCEPT !.result = <<>>, !.winner = 0, !.ev = <<>>, !.k = 0, !.dates = <<>>,
              !.msg = 0, !.j = 0, !.kw = <<>>]

Raise(f, e) == Ended([f EXCEPT !.pc = "raised", !.exc = e])
Return(f) == Ended([f EXCEPT !.pc = "done"])

\* Where a frame can be called again: it never ran, it returned, or it raised.
Finished(f) == f.pc \in {"idle", "done", "raised"}

AggPcs == {"agg_presence", "agg_fetch", "agg_report", "agg_edit", "agg_create", "agg_followup"}

\* change_presence() without arguments, and with the remaining time
Online == [status |-> "online", left_days |-> 0]
Dnd(left) == [status |-> "dnd", left_days |-> left]

(***************************************************************************)
(* addUpVotes(status).  AddUpVotesCall is the entry: the coroutine is      *)
(* suspended at once on change_presence().  AddUpVotesResume continues it  *)
(* from the await it is suspended at, the awaited call having ended with   *)
(* `io`.  The result holds the frame and the parts of the state the step   *)
(* wrote; the frame's pc is "returned" when addUpVotes returned and        *)
(* "raised" when an exception left it.                                     *)
(***************************************************************************)
AddUpVotesCall(f, status) ==
    [f EXCEPT !.pc = "agg_presence", !.st = Some(status), !.exc = "none",
              !.result = <<>>, !.winner = 0, !.report = FALSE, !.ev = <<>>,
              !.link = FALSE]

\* line 527: the name `event_number` is read in addUpVotes, where it is neither
\* a local, nor a parameter, nor a module global.
EventNumberName(status) == [exc |-> "NameError", val |-> 0]

\* line 530: the description is built from the cog's attribute website_url
EventDescription(status, cogv) == cogv.website_url

\* guild.voice_channels is not empty
GuildsWithVoice == Guilds

\* lines 521-532: the arguments of create_event, evaluated left to right, then
\* create_event's own checks.  [exc, ev]
EventRequest(status, winner, cogv, nowv) ==
    LET name == EventNumberName(status)
        date == status.dates[winner + 1]
        chk == CreateEventCheck(nowv, date, status.time_range)
    IN  IF GuildOf(status) = "None" THEN [exc |-> "ValueError", ev |-> <<>>]
        ELSE IF name.exc # "none" THEN [exc |-> name.exc, ev |-> <<>>]
        ELSE IF GuildOf(status) \notin GuildsWithVoice THEN [exc |-> "IndexError", ev |-> <<>>]
        ELSE IF EventDescription(status, cogv) = "unset"
             THEN [exc |-> "AttributeError", ev |-> <<>>]
        ELSE IF chk # "none" THEN [exc |-> chk, ev |-> <<>>]
        ELSE [exc |-> "none",
              ev |-> <<[guild |-> GuildOf(status),
                        number |-> name.val,
                        description |-> EventDescription(status, cogv),
                        date |-> date,
                        time_range |-> status.time_range,
                        times |-> EventTimes(date, status.time_range),
                        poll |-> status.hooked_message]>>]

\* lines 486-517: from the fetched message to the await of its edit
AfterFetch(f, counts) ==
    LET status == Val(f.st)
        result == ReactionResult(counts)
        mi == MaxReactionDateIndex(result)
        g == [f EXCEPT !.result = result]
    IN  IF mi.exc # "none" THEN [g EXCEPT !.pc = "agg_report"]
        ELSE IF mi.index >= Len(status.dates) THEN Raise(g, "IndexError")
        ELSE IF Len(result) < Len(status.dates) \/ Len(status.dates) > ReactionCapacity
             THEN Raise(g, "IndexError")
        ELSE [g EXCEPT !.pc = "agg_edit", !.winner = mi.index]

\* lines 540-541: the last statement of addUpVotes
RemoveStatus(coll, status) == ListRemove(coll, status)

AddUpVotesResume(f, io) ==
    LET status == Val(f.st)
        same == [f |-> f, collecting |-> collecting, msgs |-> msgs,
                 events |-> events, presence |-> presence]
    IN  CASE f.pc = "agg_presence" ->
               IF io # "ok" THEN [same EXCEPT !.f = Raise(f, io)]
               ELSE [same EXCEPT !.f = [f EXCEPT !.pc = "agg_fetch"], !.presence = Online]
          [] f.pc = "agg_fetch" ->
               IF io # "ok" THEN [same EXCEPT !.f = Raise(f, io)]
               ELSE [same EXCEPT !.f = AfterFetch(f, msgs[status.hooked_message].reactions)]
          [] f.pc = "agg_report" ->
               IF io # "ok" THEN [same EXCEPT !.f = Raise(f, io)]
               ELSE [same EXCEPT !.f = Raise([f EXCEPT !.report = TRUE], "ValueError")]
          [] f.pc = "agg_edit" ->
               IF io # "ok" THEN [same EXCEPT !.f = Raise(f, io)]
               ELSE LET rq == EventRequest(status, f.winner, cog, now)
                        edited == [msgs EXCEPT ![status.hooked_message] =
                                      [@ EXCEPT !.kind = "result", !.shown = f.result,
                                                !.winner = f.winner]]
                    IN  IF rq.exc # "none"
                        THEN [same EXCEPT !.f = Raise(f, rq.exc), !.msgs = edited]
                        ELSE [same EXCEPT !.f = [f EXCEPT !.pc = "agg_create", !.ev = rq.ev],
                                          !.msgs = edited]
          [] f.pc = "agg_create" ->
               IF io # "ok" THEN [same EXCEPT !.f = Raise(f, io)]
               ELSE [same EXCEPT !.f = [f EXCEPT !.pc = "agg_followup"],
                                 !.events = Append(events, Val(f.ev))]
          [] f.pc = "agg_followup" ->
               IF io # "ok" THEN [same EXCEPT !.f = Raise(f, io)]
               ELSE LET rm == RemoveStatus(collecting, status)
                    IN  IF rm.exc # "none"
                        THEN [same EXCEPT !.f = Raise([f EXCEPT !.link = TRUE], rm.exc)]
                        ELSE [same EXCEPT !.f = [f EXCEPT !.pc = "returned", !.link = TRUE],
                                          !.collecting = rm.list]

(***************************************************************************)
(* update_presence, the body of the tasks.Loop.  `for c in self.collecting`*)
(* walks the live list by position: the iterator holds the number k of     *)
(* elements already visited and reads element k of the list as it is when  *)
(* the loop comes round.                                                   *)
(***************************************************************************)
\* A comparison that takes the end of the vote window itself as due.
DueInclusive(c, nowv) == c.collect_end_date.t <= nowv

\* c.collect_end_date < datetime.now()
Due(c, nowv) == c.collect_end_date.t < nowv

UpdatePresenceScan(f, coll, nowv) ==
    IF f.k >= Len(coll) THEN Return([f EXCEPT !.st = <<>>])
    ELSE LET c == coll[f.k + 1]
             g == [f EXCEPT !.k = f.k + 1]
         IN  IF Due(c, nowv) THEN AddUpVotesCall(g, c)
             ELSE [g EXCEPT !.pc = "tick_presence", !.st = Some(c)]

\* tasks.Loop: an exception that leaves the body ends the loop; only after a
\* transport error (OSError, aiohttp.ClientError, asyncio.TimeoutError, which
\* are among the IOErrors) does the loop call the body again.
LoopAfterException(e) == IF e = "IOError" THEN {"running", "failed"} ELSE {"failed"}

\* The loop calls the body.
update_presence ==
    /\ loop = "running"
    /\ Finished(tick)
    /\ tick' = UpdatePresenceScan(BlankFrame, collecting, now)
    /\ UNCHANGED <<now, collecting, cog, msgs, events, presence, loop, reqs, adds, nextOid, probe>>

\* The body is resumed from its await.
update_presence_resume ==
    /\ tick.pc \in AggPcs \cup {"tick_presence"}
    /\ \E io \in IoOutcomes :
         IF tick.pc = "tick_presence"
         THEN /\ UNCHANGED <<collecting, msgs, events>>
              /\ IF io = "ok"
                 THEN /\ presence' = Dnd(DaysBetween(now, Val(tick.st).collect_end_date.t))
                      /\ tick' = UpdatePresenceScan(tick, collecting, now)
                      /\ UNCHANGED loop
                 ELSE /\ tick' = Raise([tick EXCEPT !.st = <<>>], io)
                      /\ loop' \in LoopAfterException(io)
                      /\ UNCHANGED presence
         ELSE LET r == AddUpVotesResume(tick, io)
              IN  /\ collecting' = r.collecting
                  /\ msgs' = r.msgs
                  /\ events' = r.events
                  /\ presence' = r.presence
                  /\ tick' = IF r.f.pc = "returned"
                             THEN UpdatePresenceScan(r.f, r.collecting, now)
                             ELSE r.f
                  /\ IF r.f.pc = "raised" THEN loop' \in LoopAfterException(r.f.exc)
                     ELSE loop' = loop
    /\ UNCHANGED <<now, cog, reqs, adds, nextOid, probe>>

(***************************************************************************)
(* The clock                                                               *)
(***************************************************************************)
T0 == 20 * DAY + 10 * HOUR

Advance ==
    /\ now < T0 + MaxAdvance
    /\ now' = now + 1
    /\ UNCHANGED <<collecting, cog, msgs, events, presence, loop, tick, reqs, adds, nextOid, probe>>

(***************************************************************************)
(* Initial states.  Init is the cog as __init__ leaves it: an empty        *)
(* registry, and a loop that nothing has started.  InitHandlers is the     *)
(* state the handlers update_presence, addUpVotes and addup are written    *)
(* for: a registry that holds sessions (one per community at most), their  *)
(* poll messages carrying reactions, and the loop started.                 *)
(***************************************************************************)
NoProbe == [fn |-> "none", in |-> <<>>, applied |-> FALSE, out |-> <<>>]

NoMessage ==
    [exists |-> FALSE, kind |-> "none", guild |-> "None", reactions |-> <<>>,
     dates |-> <<>>, time_range |-> <<0, 0>>, shown |-> <<>>, winner |-> 0]

CogUnset ==
    [website_url |-> "unset", schedule_range |-> None,
     collect_start_date |-> None, collect_end_date |-> None]

\* lines 68-89: the cog after __init__, nothing awaited yet
Constructed ==
    /\ now = T0
    /\ collecting = <<>>
    /\ cog = CogUnset
    /\ msgs = [m \in MsgIds |-> NoMessage]
    /\ events = <<>>
    /\ presence = [status |-> "unset", left_days |-> 0]
    /\ loop = "unstarted"
    /\ tick = BlankFrame
    /\ reqs = [r \in ReqIds |-> BlankFrame]
    /\ adds = [a \in AddupIds |-> BlankFrame]
    /\ nextOid = 1

Init == Constructed /\ probe = NoProbe

SeedGuild(i) == IF i = 1 THEN "G1" ELSE "G2"
SeedUrl(i) == IF i = 1 THEN "url1" ELSE "url2"
SeedDates == <<Aware(30 * DAY), Aware(31 * DAY), Aware(32 * DAY)>>
SeedCollectStart(i) == Naive(T0 - DebugVoteMinutes + i - 1)
SeedCollectEnd(i) == Naive(T0 + i - 1)

\* A CollectingStatus with every field schedule() would give it.
SeedStatus(i) ==
    Val(CollectingStatusInit(
        [interaction |-> [guild |-> SeedGuild(i), text_channel |-> TRUE],
         hooked_message |-> i,
         event_number |-> 10 + i,
         start_date |-> Naive(30 * DAY),
         end_date |-> Naive(32 * DAY),
         collect_start_date |-> SeedCollectStart(i),
         collect_end_date |-> SeedCollectEnd(i),
         author_text |-> 10 + i,
         website_url |-> SeedUrl(i),
         dates |-> SeedDates,
         time_range |-> <<DefaultTimeRangeStart, DefaultTimeRangeEnd>>,
         timezone |-> "Asia/Tokyo"], i).status)

SeedRegistries ==
    {<<>>, <<SeedStatus(1)>>, <<SeedStatus(2)>>,
     <<SeedStatus(1), SeedStatus(2)>>, <<SeedStatus(2), SeedStatus(1)>>}

\* The reactions a poll message of three candidates can carry when it is
\* fetched: none at all (cleared), the bot's seed reaction plus the votes,
\* a fourth emoji added by a user, a reaction removed.
SeedReactions(i) ==
    IF i = 1 THEN {<<>>, <<3, 5, 2>>, <<3, 5, 5, 1>>, <<2, 2, 2, 4>>, <<3, 5>>}
    ELSE {<<3, 5, 2>>}

SeedPoll(i, reactions) ==
    [exists |-> TRUE, kind |-> "poll", guild |-> SeedGuild(i), reactions |-> reactions,
     dates |-> <<Naive(30 * DAY), Naive(31 * DAY), Naive(32 * DAY)>>,
     time_range |-> <<DefaultTimeRangeStart, DefaultTimeRangeEnd>>,
     shown |-> <<>>, winner |-> 0]

\* The cog's own attributes are those of the session created last.
SeedCog(coll) ==
    IF coll = <<>> THEN CogUnset
    ELSE LET last == CHOOSE c \in {coll[i] : i \in 1..Len(coll)} :
                         \A i \in 1..Len(coll) : coll[i].oid <= c.oid
         IN  [website_url |-> last.website_url, schedule_range |-> None,
              collect_start_date |-> Some(last.collect_start_date),
              collect_end_date |-> Some(last.collect_end_date)]

InitSeeded(reactions1, reactions2) ==
    /\ now = T0
    /\ collecting \in SeedRegistries
    /\ cog = SeedCog(collecting)
    /\ \E r1 \in reactions1, r2 \in reactions2 :
         msgs = [m \in MsgIds |->
                   IF m = 1 THEN SeedPoll(1, r1)
                   ELSE IF m = 2 THEN SeedPoll(2, r2)
                   ELSE IF m = 3
                   THEN [NoMessage EXCEPT !.exists = TRUE, !.kind = "other", !.guild = "G1"]
                   ELSE NoMessage]
    /\ events = <<>>
    /\ presence = [status |-> "unset", left_days |-> 0]
    /\ loop = "running"
    /\ tick = BlankFrame
    /\ reqs = [r \in ReqIds |-> BlankFrame]
    /\ adds = [a \in AddupIds |-> BlankFrame]
    /\ nextOid = 3
    /\ probe = NoProbe

InitHandlers == InitSeeded(SeedReactions(1), SeedReactions(2))
\* the same registries, every poll carrying the bot's reactions and the votes [2,4,1]
InitConcurrent == InitSeeded({<<3, 5, 2>>}, {<<3, 5, 2>>})

(***************************************************************************)
(* addup(interaction, message_id)                                          *)
(***************************************************************************)
\* lines 626-637: the keyword arguments of the CollectingStatus built from a
\* fetched poll message
AddupStatusKwargs(interaction, message_id, m, nowv) ==
    [interaction |-> interaction,
     hooked_message |-> message_id,
     start_date |-> m.dates[1],
     end_date |-> m.dates[Len(m.dates)],
     collect_start_date |-> Naive(nowv),
     collect_end_date |-> Naive(nowv),
     author_text |-> 0,
     website_url |-> "",
     dates |-> m.dates,
     time_range |-> m.time_range]

\* lines 598-611: the candidate dates read back from the embed's field
\* "日時の候補"; the embed of an aggregated poll holds no such field
EmbedDates(m) == IF m.kind = "poll" THEN m.dates ELSE <<>>

\* lines 558-576 and 639-648: from entry to the first await
AddupCall(args, coll) ==
    LET f == [BlankFrame EXCEPT !.args = args]
    IN  IF ~args.text_channel THEN [f EXCEPT !.pc = "respond", !.resp = "NotTextChannel"]
        ELSE IF args.guild = "None" THEN [f EXCEPT !.pc = "respond", !.resp = "NotInGuild"]
        ELSE IF ~IsNone(args.message_id) THEN [f EXCEPT !.pc = "ad_fetchmsg"]
        ELSE IF Len(coll) > 0 THEN AddUpVotesCall(f, coll[1])
        ELSE [f EXCEPT !.pc = "respond", !.resp = "NoPoll"]

\* lines 579-638: from the fetched message to the first await after it.  [f, oid]
AfterFetchMessage(f, m, nowv, oid) ==
    IF m.kind \notin {"poll", "result"}
    THEN [f |-> [f EXCEPT !.pc = "respond", !.resp = "NotPollMessage"], oid |-> oid]
    ELSE IF Len(EmbedDates(m)) = 0
    THEN [f |-> [f EXCEPT !.pc = "respond", !.resp = "NoDatesField"], oid |-> oid]
    ELSE LET made == CollectingStatusInit(
                         AddupStatusKwargs([guild |-> f.args.guild,
                                            text_channel |-> f.args.text_channel],
                                           Val(f.args.message_id), m, nowv), oid)
         IN  IF made.exc # "none" THEN [f |-> Raise(f, made.exc), oid |-> oid]
             ELSE [f |-> AddUpVotesCall(f, Val(made.status)), oid |-> oid + 1]

\* channel.fetch_message finds a message of the channel's own guild only
FetchOutcomes(guild, message_id) ==
    IF msgs[message_id].exists /\ msgs[message_id].guild = guild THEN IoOutcomes
    ELSE IoOutcomes \ {"ok"}

AddupRequests ==
    {[guild |-> "None", text_channel |-> FALSE, message_id |-> None]}
    \cup {[guild |-> g, text_channel |-> TRUE, message_id |-> m] :
            g \in Guilds, m \in {None} \cup {Some(i) : i \in MsgIds}}

\* The manual aggregations issued against a registry that holds sessions
HandlerAddupRequests ==
    {[guild |-> g, text_channel |-> TRUE, message_id |-> None] : g \in Guilds}
    \cup {[guild |-> "G1", text_channel |-> TRUE, message_id |-> Some(1)]}

AddupWith(a, requests) ==
    /\ Finished(adds[a])
    /\ \E args \in requests : adds' = [adds EXCEPT ![a] = AddupCall(args, collecting)]
    /\ UNCHANGED <<now, collecting, cog, msgs, events, presence, loop, tick, reqs, nextOid, probe>>

addup(a) == AddupWith(a, AddupRequests)

addup_resume(a) ==
    LET f == adds[a]
    IN  /\ f.pc \in AggPcs \cup {"respond", "ad_fetchmsg"}
        /\ CASE f.pc = "respond" ->
                  /\ \E io \in IoOutcomes :
                       adds' = [adds EXCEPT ![a] =
                                  IF io = "ok" THEN Return(f) ELSE Raise(f, io)]
                  /\ UNCHANGED <<collecting, msgs, events, presence, nextOid>>
             [] f.pc = "ad_fetchmsg" ->
                  /\ \E io \in FetchOutcomes(f.args.guild, Val(f.args.message_id)) :
                       LET r == AfterFetchMessage(f, msgs[Val(f.args.message_id)], now, nextOid)
                       IN  IF io = "ok"
                           THEN adds' = [adds EXCEPT ![a] = r.f] /\ nextOid' = r.oid
                           ELSE adds' = [adds EXCEPT ![a] = Raise(f, io)] /\ UNCHANGED nextOid
                  /\ UNCHANGED <<collecting, msgs, events, presence>>
             [] OTHER ->
                  /\ \E io \in IoOutcomes :
                       LET r == AddUpVotesResume(f, io)
                       IN  /\ collecting' = r.collecting
                           /\ msgs' = r.msgs
                           /\ events' = r.events
                           /\ presence' = r.presence
                           /\ adds' = [adds EXCEPT ![a] =
                                         IF r.f.pc = "returned"
                                         THEN Return(r.f) ELSE r.f]
                  /\ UNCHANGED nextOid
        /\ UNCHANGED <<now, cog, loop, tick, reqs, probe>>

(***************************************************************************)
(* schedule(interaction, event_number, start_date, end_date, ...)          *)
(***************************************************************************)
\* A date argument is a string: one dateutil can parse, or one it cannot.
DateStr(t) == [text |-> "date", t |-> t]
Garbage == [text |-> "garbage", t |-> 0]

\* dateutil.parser.parse: a naive datetime, or ParserError
parse(str) ==
    IF str.text = "date" THEN [exc |-> "none", dt |-> Naive(str.t)]
    ELSE [exc |-> "ParserError", dt |-> Naive(0)]

\* lines 448-460: the keyword arguments of the CollectingStatus of a new poll.
\* Those that are locals of schedule() are fixed once the candidates exist.
ScheduleLocalKwargs(args, dates) ==
    [interaction |-> [guild |-> args.guild, text_channel |-> TRUE],
     start_date |-> parse(Val(args.start_date)).dt,
     end_date |-> parse(Val(args.end_date)).dt,
     author_text |-> args.event_number,
     website_url |-> args.website_url,
     dates |-> dates,
     time_range |-> <<args.time_range_start, args.time_range_end>>,
     timezone |-> args.timezone]

\* The others are read when the CollectingStatus is built: the message, and
\* the vote window from the cog's attributes.
ScheduleStatusKwargs(f, cogv) ==
    LET late == [hooked_message |-> f.msg,
                 collect_start_date |-> Val(cogv.collect_start_date),
                 collect_end_date |-> Val(cogv.collect_end_date)]
    IN  [key \in DOMAIN f.kw \cup DOMAIN late |->
            IF key \in DOMAIN late THEN late[key] ELSE f.kw[key]]

\* lines 382-394: the attributes schedule() writes on the cog
ScheduleInitVars(args, cogv, nowv) ==
    [cogv EXCEPT
       !.schedule_range = IF IsNone(args.schedule_range) THEN @ ELSE args.schedule_range,
       !.website_url = args.website_url,
       !.collect_start_date = Some(Naive(nowv)),
       !.collect_end_date =
           Some(Naive(IF args.debug_vote THEN nowv + DebugVoteMinutes
                      ELSE Midnight(nowv + DEFAULT_COLLECT_RANGE * DAY)))]

\* A duplicate check that looks at nothing but whether sessions exist.
AlreadyCollectingAny(coll, guild) == Len(coll) > 0

\* lines 266-274: a registered session of the interaction's guild
AlreadyCollecting(coll, guild) == \E i \in 1..Len(coll) : GuildOf(coll[i]) = guild

\* Date checks that parse end_date before start_date.
ScheduleDateChecksEndFirst(args, nowv) ==
    LET ps == parse(Val(args.start_date))
        pe == parse(Val(args.end_date))
    IN  IF ~IsNone(args.end_date) /\ pe.exc # "none" THEN "resp:InvalidEndDate"
        ELSE IF ~IsNone(args.start_date) /\ ps.exc # "none" THEN "resp:InvalidStartDate"
        ELSE IF IsNone(args.start_date) \/ IsNone(args.end_date) THEN "exc:AssertionError"
        ELSE IF pe.dt.t <= ps.dt.t THEN "resp:OrderError"
        ELSE IF ps.dt.t < nowv \/ pe.dt.t < nowv THEN "resp:PastDate"
        ELSE IF ps.dt.t < nowv + DEFAULT_COLLECT_RANGE * DAY THEN "resp:ScheduleOverlap"
        ELSE IF args.time_range_start < FirstHour \/ args.time_range_start > LastHour
                \/ args.time_range_end < FirstHour \/ args.time_range_end > LastHour
             THEN "resp:HourRange"
        ELSE IF args.time_range_start >= args.time_range_end THEN "resp:HourOrder"
        ELSE "none"

\* lines 304-380: the dates and the hours.  "none" when every check passes.
ScheduleDateChecks(args, nowv) ==
    LET ps == parse(Val(args.start_date))
        pe == parse(Val(args.end_date))
    IN  IF ~IsNone(args.start_date) /\ ps.exc # "none" THEN "resp:InvalidStartDate"
        ELSE IF ~IsNone(args.end_date) /\ pe.exc # "none" THEN "resp:InvalidEndDate"
        ELSE IF IsNone(args.start_date) \/ IsNone(args.end_date) THEN "exc:AssertionError"
        ELSE IF pe.dt.t <= ps.dt.t THEN "resp:OrderError"
        ELSE IF ps.dt.t < nowv \/ pe.dt.t < nowv THEN "resp:PastDate"
        ELSE IF ps.dt.t < nowv + DEFAULT_COLLECT_RANGE * DAY THEN "resp:ScheduleOverlap"
        ELSE IF args.time_range_start < FirstHour \/ args.time_range_start > LastHour
                \/ args.time_range_end < FirstHour \/ args.time_range_end > LastHour
             THEN "resp:HourRange"
        ELSE IF args.time_range_start >= args.time_range_end THEN "resp:HourOrder"
        ELSE "none"

RespKind(verdict) ==
    CASE verdict = "resp:InvalidStartDate" -> "InvalidStartDate"
      [] verdict = "resp:InvalidEndDate" -> "InvalidEndDate"
      [] verdict = "resp:OrderError" -> "OrderError"
      [] verdict = "resp:PastDate" -> "PastDate"
      [] verdict = "resp:ScheduleOverlap" -> "ScheduleOverlap"
      [] verdict = "resp:HourRange" -> "HourRange"
      [] verdict = "resp:HourOrder" -> "HourOrder"

\* lines 265-442: from entry to the first await, `gen` being what
\* generate_schedule_dates returned or raised and `kw` the keyword arguments
\* schedule() holds for the CollectingStatus.  [f, cog]
ScheduleBody(args, coll, cogv, nowv, gen, kw) ==
    LET f == [BlankFrame EXCEPT !.args = args]
        respond(kind) == [f |-> [f EXCEPT !.pc = "respond", !.resp = kind], cog |-> cogv]
        verdict == ScheduleDateChecks(args, nowv)
        cog1 == ScheduleInitVars(args, cogv, nowv)
    IN  IF AlreadyCollecting(coll, args.guild) THEN respond("AlreadyCollecting")
        ELSE IF args.guild = "None" THEN respond("NotInGuild")
        ELSE IF ~IsNone(args.schedule_range) /\ ~IsNone(args.end_date)
             THEN respond("ConflictingParameters")
        ELSE IF args.filter_type \notin FILTER_TYPE THEN respond("UnknownFilter")
        ELSE IF verdict = "exc:AssertionError" THEN [f |-> Raise(f, "AssertionError"), cog |-> cogv]
        ELSE IF verdict # "none" THEN respond(RespKind(verdict))
        ELSE IF gen.exc # "none" THEN [f |-> Raise(f, gen.exc), cog |-> cog1]
        ELSE IF Len(gen.dates) = 0
             THEN [f |-> [f EXCEPT !.pc = "respond", !.resp = "NoCandidates"], cog |-> cog1]
        ELSE IF Len(gen.dates) > ReactionCapacity
             THEN [f |-> [f EXCEPT !.pc = "respond", !.resp = "TooManyCandidates"], cog |-> cog1]
        ELSE [f |-> [f EXCEPT !.pc = "post", !.dates = gen.dates, !.kw = kw], cog |-> cog1]

\* lines 398-404: the candidates are generated without collect_end_date, from
\* the schedule_range the cog holds after lines 382-394
ScheduleDates(args, cogv, nowv) ==
    generate_schedule_dates(nowv, ScheduleInitVars(args, cogv, nowv).schedule_range,
        Some(parse(Val(args.start_date)).dt), Some(parse(Val(args.end_date)).dt),
        args.schedule_range, None, args.filter_type, args.timezone)

\* A schedule() whose candidates are compared with a timezone-aware end of the
\* vote window, and which hands event_number to CollectingStatus.
ScheduleCallRegistering(args, coll, cogv, nowv) ==
    LET gen == generate_schedule_dates(nowv, ScheduleInitVars(args, cogv, nowv).schedule_range,
                   Some(parse(Val(args.start_date)).dt), Some(parse(Val(args.end_date)).dt),
                   args.schedule_range,
                   Some(Aware(Midnight(nowv + DEFAULT_COLLECT_RANGE * DAY))),
                   args.filter_type, args.timezone)
        kw == ScheduleLocalKwargs(args, gen.dates)
    IN  ScheduleBody(args, coll, cogv, nowv, gen,
                     [key \in DOMAIN kw \cup {"event_number"} |->
                         IF key = "event_number" THEN args.event_number ELSE kw[key]])

ScheduleCall(args, coll, cogv, nowv) ==
    LET gen == ScheduleDates(args, cogv, nowv)
    IN  ScheduleBody(args, coll, cogv, nowv, gen, ScheduleLocalKwargs(args, gen.dates))

\* The start requests the model issues: a well-formed request and its variants,
\* each changing the well-formed one in the fields named.
BaseRequest ==
    [guild |-> "G1", event_number |-> 12,
     start_date |-> Some(DateStr(T0 + 10 * DAY)), end_date |-> Some(DateStr(T0 + 12 * DAY)),
     schedule_range |-> None, timezone |-> "Asia/Tokyo", filter_type |-> "all",
     website_url |-> "urlA", time_range_start |-> DefaultTimeRangeStart,
     time_range_end |-> DefaultTimeRangeEnd, debug_vote |-> FALSE]

StartRequests ==
    {BaseRequest,
     [BaseRequest EXCEPT !.guild = "G2", !.website_url = "urlB", !.event_number = 13],
     [BaseRequest EXCEPT !.guild = "None"],
     [BaseRequest EXCEPT !.schedule_range = Some(3)],
     [BaseRequest EXCEPT !.filter_type = "bogus"],
     [BaseRequest EXCEPT !.start_date = Some(Garbage)],
     [BaseRequest EXCEPT !.end_date = Some(Garbage)],
     [BaseRequest EXCEPT !.start_date = Some(Garbage), !.filter_type = "bogus"],
     [BaseRequest EXCEPT !.end_date = None, !.schedule_range = Some(3)],
     [BaseRequest EXCEPT !.end_date = None],
     [BaseRequest EXCEPT !.start_date = None],
     [BaseRequest EXCEPT !.end_date = Some(DateStr(T0 + 9 * DAY))],
     [BaseRequest EXCEPT !.start_date = Some(DateStr(T0 - DAY))],
     [BaseRequest EXCEPT !.start_date = Some(DateStr(T0 + 3 * DAY))],
     [BaseRequest EXCEPT !.time_range_end = LastHour + 1],
     [BaseRequest EXCEPT !.time_range_start = FirstHour - 1],
     [BaseRequest EXCEPT !.time_range_start = DefaultTimeRangeEnd,
                         !.time_range_end = DefaultTimeRangeStart],
     [BaseRequest EXCEPT !.filter_type = "weekend"],
     [BaseRequest EXCEPT !.filter_type = "weekend", !.guild = "G2", !.website_url = ""],
     [BaseRequest EXCEPT !.debug_vote = TRUE],
     [BaseRequest EXCEPT !.end_date = Some(DateStr(T0 + 60 * DAY))]}

ConcurrentRequests ==
    {BaseRequest,
     [BaseRequest EXCEPT !.filter_type = "weekend", !.website_url = ""]}

\* the id the messaging collaborator gives the next message
FreeMsgIds == {m \in MsgIds : ~msgs[m].exists}

\* lines 422-442: the poll message as posted
PollMessage(f) ==
    [exists |-> TRUE, kind |-> "poll", guild |-> f.args.guild, reactions |-> <<>>,
     dates |-> [i \in 1..Len(f.dates) |-> Naive(f.dates[i].t)],
     time_range |-> <<f.args.time_range_start, f.args.time_range_end>>,
     shown |-> <<>>, winner |-> 0]

ScheduleWith(r, requests) ==
    /\ Finished(reqs[r])
    /\ \E args \in requests :
         LET c == ScheduleCall(args, collecting, cog, now)
         IN  reqs' = [reqs EXCEPT ![r] = c.f] /\ cog' = c.cog
    /\ UNCHANGED <<now, collecting, msgs, events, presence, loop, tick, adds, nextOid, probe>>

\* The first invocation slot issues every request of StartRequests; the slots
\* that run beside it issue the requests of ConcurrentRequests.
schedule(r) == ScheduleWith(r, IF r = 1 THEN StartRequests ELSE ConcurrentRequests)

schedule_resume(r) ==
    LET f == reqs[r]
    IN  /\ f.pc \in {"respond", "post", "react", "sch_presence"}
        /\ \E io \in IoOutcomes :
             IF io # "ok"
             THEN /\ reqs' = [reqs EXCEPT ![r] = Raise(f, io)]
                  /\ UNCHANGED <<collecting, msgs, presence, nextOid>>
             ELSE CASE f.pc = "respond" ->
                         /\ reqs' = [reqs EXCEPT ![r] = Return(f)]
                         /\ UNCHANGED <<collecting, msgs, presence, nextOid>>
                    [] f.pc = "post" ->
                         /\ FreeMsgIds # {}
                         /\ LET m == CHOOSE x \in FreeMsgIds : \A y \in FreeMsgIds : x <= y
                            IN  /\ msgs' = [msgs EXCEPT ![m] = PollMessage(f)]
                                /\ reqs' = [reqs EXCEPT ![r] =
                                              [f EXCEPT !.pc = "react", !.msg = m, !.j = 0]]
                         /\ UNCHANGED <<collecting, presence, nextOid>>
                    [] f.pc = "react" ->
                         LET made == CollectingStatusInit(ScheduleStatusKwargs(f, cog), nextOid)
                             last == f.j + 1 >= Len(f.dates)
                         IN  /\ msgs' = [msgs EXCEPT ![f.msg].reactions = Append(@, 1)]
                             /\ UNCHANGED presence
                             /\ IF ~last
                                THEN /\ reqs' = [reqs EXCEPT ![r] = [f EXCEPT !.j = f.j + 1]]
                                     /\ UNCHANGED <<collecting, nextOid>>
                                ELSE IF made.exc # "none"
                                THEN /\ reqs' = [reqs EXCEPT ![r] =
                                                   Raise([f EXCEPT !.j = f.j + 1], made.exc)]
                                     /\ UNCHANGED <<collecting, nextOid>>
                                ELSE /\ collecting' = Append(collecting, Val(made.status))
                                     /\ nextOid' = nextOid + 1
                                     /\ reqs' = [reqs EXCEPT ![r] =
                                                   [f EXCEPT !.j = f.j + 1, !.pc = "sch_presence"]]
                    [] f.pc = "sch_presence" ->
                         /\ presence' = Dnd(DEFAULT_COLLECT_RANGE)
                         /\ reqs' = [reqs EXCEPT ![r] = Return(f)]
                         /\ UNCHANGED <<collecting, msgs, nextOid>>
        /\ UNCHANGED <<now, cog, events, loop, tick, adds, probe>>

(***************************************************************************)
(* The specifications.  Spec is the program as it is constructed: nothing  *)
(* in the repository starts the loop, so its iterations are no part of     *)
(* Spec.  SpecHandlers runs the loop and manual aggregations from          *)
(* InitHandlers; SpecConcurrent runs them beside two start requests.       *)
(***************************************************************************)
Next ==
    \/ \E r \in ReqIds : schedule(r)
    \/ \E r \in ReqIds : schedule_resume(r)
    \/ \E a \in AddupIds : addup(a)
    \/ \E a \in AddupIds : addup_resume(a)
    \/ Advance

Spec == Init /\ [][Next]_vars

schedule_h(r) == ScheduleWith(r, ConcurrentRequests)
addup_h(a) == AddupWith(a, HandlerAddupRequests)

NextHandlers ==
    \/ update_presence
    \/ update_presence_resume
    \/ \E a \in AddupIds : addup_h(a)
    \/ \E a \in AddupIds : addup_resume(a)
    \/ Advance

SpecHandlers == InitHandlers /\ [][NextHandlers]_vars

NextConcurrent ==
    \/ NextHandlers
    \/ \E r \in ReqIds : schedule_h(r)
    \/ \E r \in ReqIds : schedule_resume(r)

SpecConcurrent == InitConcurrent /\ [][NextConcurrent]_vars


(***************************************************************************)
(* Functions applied on their own.  SpecPure draws the arguments of one    *)
(* call in its initial state and applies the function to them once: the    *)
(* tally of addUpVotes to a fetched message with one reaction for each     *)
(* candidate, and create_event's checks to a date, a pair of hours and a   *)
(* clock.                                                                  *)
(***************************************************************************)
MaxVotes == 6
MaxLen == 4

\* the counts of the reactions of a fetched message; a reaction that is shown
\* has a count of one at least
CountSeqs == UNION {[1..n -> 1..MaxVotes] : n \in 0..MaxLen}

\* a session whose poll has n candidates
ProbeStatus(n) == [SeedStatus(1) EXCEPT !.dates = [i \in 1..n |-> Aware((30 + i) * DAY)]]

TallyInputs == {[NoProbe EXCEPT !.fn = "tally", !.in = c] : c \in CountSeqs}

ProbeHours == {FirstHour - 1, FirstHour, DefaultTimeRangeStart, LastHour, LastHour + 1}
ProbeNows == {Midnight(T0), T0}
ProbeDays == {Midnight(T0) - DAY, Midnight(T0), Midnight(T0) + DAY}
ProbeDates == {Naive(d) : d \in ProbeDays} \cup {Aware(d) : d \in ProbeDays}

CreateEventInputs ==
    {[NoProbe EXCEPT !.fn = "create_event",
                     !.in = [now |-> n, date |-> d, time_range |-> <<h1, h2>>]] :
        n \in ProbeNows, d \in ProbeDates, h1 \in ProbeHours, h2 \in ProbeHours}

\* schedule() from its entry to its first await, on a registry and a request
ProbeStarts ==
    {None, Some(Garbage), Some(DateStr(T0 + 10 * DAY)), Some(DateStr(T0 - DAY)),
     Some(DateStr(T0 + 3 * DAY))}
ProbeEnds ==
    {None, Some(Garbage), Some(DateStr(T0 + 12 * DAY)), Some(DateStr(T0 + 9 * DAY))}
ProbeWindows ==
    {<<DefaultTimeRangeStart, DefaultTimeRangeEnd>>,
     <<DefaultTimeRangeStart, LastHour + 1>>,
     <<DefaultTimeRangeEnd, DefaultTimeRangeStart>>}

ProbeRequests ==
    {[BaseRequest EXCEPT !.guild = g, !.schedule_range = sr, !.filter_type = ft,
                         !.start_date = sd, !.end_date = ed,
                         !.time_range_start = h[1], !.time_range_end = h[2]] :
        g \in Guilds \cup {"None"}, sr \in {None, Some(3)},
        ft \in {"all", "weekend", "bogus"},
        sd \in ProbeStarts, ed \in ProbeEnds, h \in ProbeWindows}

ScheduleInputs ==
    {[NoProbe EXCEPT !.fn = "schedule",
                     !.in = [args |-> a, coll |-> c, cog |-> SeedCog(c), now |-> T0]] :
        a \in ProbeRequests, c \in SeedRegistries}

\* generate_schedule_dates on a start day, a range length, a filter and the
\* earliest day allowed: left out, naive as datetime.now() and the cog's
\* collect_end_date are, or timezone-aware
MaxRange == 14

GenerateStarts == {Naive(d * DAY + 10 * HOUR) : d \in 1..DaysPerWeek}
GenerateEarliest ==
    {None, Some(Naive(5 * DAY)), Some(Aware(5 * DAY)), Some(Aware(0)),
     Some(Aware(MaxRange * DAY))}

GenerateInputs ==
    {[NoProbe EXCEPT !.fn = "generate",
                     !.in = [start |-> st, range |-> n, filter |-> ft, earliest |-> e]] :
        st \in GenerateStarts, n \in 0..MaxRange, ft \in FILTER_TYPE,
        e \in GenerateEarliest}

\* self.collecting.remove(status) on a registry and a session: one of the
\* registry, one registered no longer, or an object built anew from a poll
\* (CollectingStatus defines no __eq__, so list.remove compares identities)
RebuiltStatus(i) == [SeedStatus(i) EXCEPT !.oid = 2 + i]

RemoveInputs ==
    {[NoProbe EXCEPT !.fn = "remove", !.in = [coll |-> c, status |-> st]] :
        c \in SeedRegistries,
        st \in {SeedStatus(1), SeedStatus(2), RebuiltStatus(1), RebuiltStatus(2)}}

InitPure ==
    Constructed
    /\ probe \in TallyInputs \cup CreateEventInputs \cup ScheduleInputs \cup GenerateInputs
                  \cup RemoveInputs

\* lines 486-517 on the message fetched
ApplyTally ==
    /\ probe.fn = "tally" /\ ~probe.applied
    /\ probe' = [probe EXCEPT
                   !.applied = TRUE,
                   !.out = AfterFetch([BlankFrame EXCEPT
                                          !.st = Some(ProbeStatus(Len(probe.in)))],
                                      probe.in)]
    /\ UNCHANGED <<now, collecting, cog, msgs, events, presence, loop, tick, reqs, adds,
                   nextOid>>

\* lines 210-226: create_event up to its await
ApplyCreateEvent ==
    /\ probe.fn = "create_event" /\ ~probe.applied
    /\ probe' = [probe EXCEPT
                   !.applied = TRUE,
                   !.out = [exc |-> CreateEventCheck(probe.in.now, probe.in.date,
                                                     probe.in.time_range),
                            times |-> EventTimes(probe.in.date, probe.in.time_range)]]
    /\ UNCHANGED <<now, collecting, cog, msgs, events, presence, loop, tick, reqs, adds,
                   nextOid>>

\* lines 265-442: schedule() up to its first await
ApplySchedule ==
    /\ probe.fn = "schedule" /\ ~probe.applied
    /\ probe' = [probe EXCEPT
                   !.applied = TRUE,
                   !.out = ScheduleCall(probe.in.args, probe.in.coll, probe.in.cog,
                                        probe.in.now)]
    /\ UNCHANGED <<now, collecting, cog, msgs, events, presence, loop, tick, reqs, adds,
                   nextOid>>

\* lines 91-134, called at datetime.now() = T0
ApplyGenerate ==
    /\ probe.fn = "generate" /\ ~probe.applied
    /\ probe' = [probe EXCEPT
                   !.applied = TRUE,
                   !.out = generate_schedule_dates(T0, None, Some(probe.in.start), None,
                                                   Some(probe.in.range), probe.in.earliest,
                                                   probe.in.filter, "Asia/Tokyo")]
    /\ UNCHANGED <<now, collecting, cog, msgs, events, presence, loop, tick, reqs, adds,
                   nextOid>>

\* line 541
ApplyRemove ==
    /\ probe.fn = "remove" /\ ~probe.applied
    /\ probe' = [probe EXCEPT
                   !.applied = TRUE,
                   !.out = RemoveStatus(probe.in.coll, probe.in.status)]
    /\ UNCHANGED <<now, collecting, cog, msgs, events, presence, loop, tick, reqs, adds,
                   nextOid>>

NextPure == ApplyTally \/ ApplyCreateEvent \/ ApplySchedule \/ ApplyGenerate \/ ApplyRemove

SpecPure == InitPure /\ [][NextPure]_vars

(***************************************************************************)
(* C7.  For every non-empty sequence of fetched reaction counts the tally  *)
(* holds each count less one, and the winner is the smallest index whose   *)
(* adjusted count is the maximum: no other adjusted count is larger, and   *)
(* every adjusted count before it is smaller.                              *)
(***************************************************************************)
TallyFirstMaximum ==
    (probe.fn = "tally" /\ probe.applied /\ Len(probe.in) > 0) =>
        LET f == probe.out
            n == Len(probe.in)
        IN  /\ f.pc = "agg_edit"
            /\ Len(f.result) = n
            /\ \A i \in 1..n : f.result[i] = probe.in[i] - 1
            /\ f.winner \in 0..(n - 1)
            /\ \A i \in 1..n : f.result[i] <= f.result[f.winner + 1]
            /\ \A i \in 1..f.winner : f.result[i] < f.result[f.winner + 1]

\* the adjusted counts [3, 5, 5, 1] give the winner index 1
TallyTieWitness ==
    /\ probe.fn = "tally" /\ probe.applied
    /\ probe.in = <<4, 6, 6, 2>>
    /\ probe.out.result = <<3, 5, 5, 1>>
    /\ probe.out.winner = 1

(***************************************************************************)
(* C9.  create_event reaches the event publisher only when start_hour is   *)
(* less than end_hour, both are within 0..23 and the date combined with    *)
(* start_hour is strictly later than now; in every other case it raises    *)
(* the ValueError that is InvalidEventTime.                                *)
(***************************************************************************)
PublisherOnlyForFutureStart ==
    (probe.fn = "create_event" /\ probe.applied) =>
        LET h1 == probe.in.time_range[1]
            h2 == probe.in.time_range[2]
            valid == /\ h1 < h2
                     /\ h1 \in FirstHour..LastHour
                     /\ h2 \in FirstHour..LastHour
                     /\ probe.in.date.t + h1 * HOUR > probe.in.now
        IN  /\ probe.out.exc = "none" => valid
            /\ ~valid => probe.out.exc = "ValueError"


(***************************************************************************)
(* Aggregations.  The frames addUpVotes runs in: the loop's iteration and  *)
(* the addup() invocations.  A frame names the session it aggregates (st)  *)
(* from the call of addUpVotes on; it has an aggregation under way while   *)
(* its pc is one of addUpVotes' awaits, and the aggregation has ended when *)
(* the frame returned ("done") or an exception left it ("raised").         *)
(***************************************************************************)
AggFrames == <<tick>> \o [a \in AddupIds |-> adds[a]]
AggSlots == DOMAIN AggFrames
FrameOf(slot) == AggFrames[slot]
IsTick(slot) == slot = 1

Aggregating(f) == ~IsNone(f.st) /\ f.pc \in AggPcs
AggregationEnded(f) == ~IsNone(f.st) /\ f.pc \in {"done", "raised"}

Registered(st, coll) == IndexOfStatus(coll, st) # 0
PollOf(st) == msgs[st.hooked_message]

\* one reaction on the poll for each of its candidates, as schedule() attaches them
OneReactionPerCandidate(st) == Len(PollOf(st).reactions) = Len(st.dates)

\* the 1-based position of the first largest count
FirstLargest(counts) ==
    CHOOSE i \in 1..Len(counts) :
        /\ \A j \in 1..Len(counts) : counts[j] <= counts[i]
        /\ \A j \in 1..(i - 1) : counts[j] < counts[i]

SchedulerDeliversEvent ==
    (AggregationEnded(tick) /\ tick.exc # "IOError"
        /\ OneReactionPerCandidate(Val(tick.st))) =>
        LET st == Val(tick.st)
        IN  /\ \E i \in 1..Len(events) :
                  /\ events[i].poll = st.hooked_message
                  /\ events[i].date = st.dates[FirstLargest(PollOf(st).reactions)]
            /\ ~Registered(st, collecting)

(***************************************************************************)
(* C3.  The step that completes an aggregation of a registered session,    *)
(* from the loop or from addup(), takes that session out of the registry,  *)
(* and only such a step takes a session out.                               *)
(***************************************************************************)
CompletesAggregation(slot) ==
    LET f == FrameOf(slot)
    IN  /\ Aggregating(f)
        /\ \/ FrameOf(slot)'.pc \notin AggPcs
           \/ FrameOf(slot)'.st # f.st

RemovedAtCompletion ==
    [][/\ \A slot \in AggSlots :
             (CompletesAggregation(slot) /\ Registered(Val(FrameOf(slot).st), collecting))
                => ~Registered(Val(FrameOf(slot).st), collecting')
       /\ Len(collecting') < Len(collecting) =>
             /\ Len(collecting') = Len(collecting) - 1
             /\ \E slot \in AggSlots :
                   /\ CompletesAggregation(slot)
                   /\ collecting' = ListRemove(collecting, Val(FrameOf(slot).st)).list]_vars

(***************************************************************************)
(* C4.  An aggregation that has ended, by returning or by an exception,    *)
(* has left its session out of the registry.                               *)
(***************************************************************************)
EndedAggregationUnregistered ==
    \A slot \in AggSlots :
        AggregationEnded(FrameOf(slot)) =>
            ~Registered(Val(FrameOf(slot).st), collecting)

(***************************************************************************)
(* C6.  Whenever a session is registered, the loop around update_presence  *)
(* is running.                                                             *)
(***************************************************************************)
SchedulerRunsWhileRegistered == Len(collecting) > 0 => loop = "running"

(***************************************************************************)
(* C10.  An aggregation that has got past the edit of the poll requests    *)
(* the event from the data of its own session (its event number, its       *)
(* website URL, its hours), unless a collaborator failed or the event's    *)
(* time was refused.                                                       *)
(***************************************************************************)
OwnData(e, st) ==
    /\ e.poll = st.hooked_message
    /\ e.guild = GuildOf(st)
    /\ e.number = st.event_number
    /\ e.description = st.website_url
    /\ e.time_range = st.time_range

EventFromOwnSession ==
    \A slot \in AggSlots :
        LET f == FrameOf(slot)
        IN  (~IsNone(f.st) /\ PollOf(Val(f.st)).kind = "result"
                /\ f.pc \in {"agg_create", "agg_followup", "done", "raised"}) =>
               \/ f.pc = "raised" /\ f.exc \in {"IOError", "ValueError"}
               \/ f.pc = "agg_create" /\ OwnData(Val(f.ev), Val(f.st))
               \/ /\ f.pc \in {"agg_followup", "done"}
                  /\ \E i \in 1..Len(events) : OwnData(events[i], Val(f.st))

(***************************************************************************)
(* C5.  Under fair ticking: once the aggregation of a due session has      *)
(* failed in an iteration of the loop, every other registered session of   *)
(* another community that is due is aggregated by the loop later on.       *)
(***************************************************************************)
SpecHandlersFair ==
    /\ SpecHandlers
    /\ WF_vars(update_presence)
    /\ WF_vars(update_presence_resume)

OtherStillAggregated ==
    \A i \in 1..2, j \in 1..2 :
        (/\ tick.pc = "raised" /\ ~IsNone(tick.st)
         /\ Val(tick.st).oid = i
         /\ j # i
         /\ Registered(SeedStatus(j), collecting)
         /\ Due(SeedStatus(j), now))
        ~> (Aggregating(tick) /\ Val(tick.st).oid = j)

Rule(name, hit) == [name |-> name, hit |-> hit]

\* the name of the first rule of the sequence that is broken, "none" if none is
FirstHit(rules) ==
    LET hits == {i \in 1..Len(rules) : rules[i].hit}
    IN  IF hits = {} THEN "none"
        ELSE rules[CHOOSE i \in hits : \A j \in hits : i <= j].name

Supplied(d) == ~IsNone(d)
Malformed(d) == Supplied(d) /\ Val(d).text # "date"
BothParse(args) ==
    /\ Supplied(args.start_date) /\ ~Malformed(args.start_date)
    /\ Supplied(args.end_date) /\ ~Malformed(args.end_date)
HourOutOfRange(h) == h < FirstHour \/ h > LastHour

\* how the start request of the probe ended: the error embed, or the exception
ScheduleOutcome ==
    LET f == probe.out.f
    IN  IF f.pc = "respond" THEN f.resp
        ELSE IF f.pc = "raised" THEN f.exc
        ELSE "none"

CodeOrder(args, coll, nowv) ==
    <<Rule("AlreadyCollecting", \E i \in 1..Len(coll) : coll[i].interaction.guild = args.guild),
      Rule("NotInGuild", args.guild = "None"),
      Rule("ConflictingParameters", Supplied(args.schedule_range) /\ Supplied(args.end_date)),
      Rule("UnknownFilter", args.filter_type \notin {"all", "weekday", "weekend", "holydays"}),
      Rule("InvalidStartDate", Malformed(args.start_date)),
      Rule("InvalidEndDate", Malformed(args.end_date)),
      Rule("AssertionError", ~Supplied(args.start_date) \/ ~Supplied(args.end_date)),
      Rule("OrderError", BothParse(args) /\ Val(args.end_date).t <= Val(args.start_date).t),
      Rule("PastDate", BothParse(args)
                       /\ (Val(args.start_date).t < nowv \/ Val(args.end_date).t < nowv)),
      Rule("ScheduleOverlap", BothParse(args)
                       /\ Val(args.start_date).t < nowv + DEFAULT_COLLECT_RANGE * DAY),
      Rule("HourRange", HourOutOfRange(args.time_range_start)
                        \/ HourOutOfRange(args.time_range_end)),
      Rule("HourOrder", args.time_range_start >= args.time_range_end)>>

ClaimedOrder(args, coll, nowv) ==
    <<Rule("AlreadyCollecting", \E i \in 1..Len(coll) : coll[i].interaction.guild = args.guild),
      Rule("NotInCommunity", args.guild = "None"),
      Rule("InvalidDate", Malformed(args.start_date) \/ Malformed(args.end_date)),
      Rule("DateOrder", BothParse(args)
                        /\ \/ Val(args.end_date).t <= Val(args.start_date).t
                           \/ Val(args.start_date).t < nowv \/ Val(args.end_date).t < nowv
                           \/ Val(args.start_date).t < nowv + DEFAULT_COLLECT_RANGE * DAY),
      Rule("InvalidEventWindow", \/ HourOutOfRange(args.time_range_start)
                                 \/ HourOutOfRange(args.time_range_end)
                                 \/ args.time_range_start >= args.time_range_end),
      Rule("UnknownFilter", args.filter_type \notin {"all", "weekday", "weekend", "holydays"})>>

ClaimedName(outcome) ==
    CASE outcome = "NotInGuild" -> "NotInCommunity"
      [] outcome \in {"InvalidStartDate", "InvalidEndDate"} -> "InvalidDate"
      [] outcome \in {"OrderError", "PastDate", "ScheduleOverlap"} -> "DateOrder"
      [] outcome \in {"HourRange", "HourOrder"} -> "InvalidEventWindow"
      [] OTHER -> outcome

RequestEnded(f) == f.pc \in {"done", "raised"} /\ f.args # <<>>

PassesValidations(args, coll, nowv) == FirstHit(CodeOrder(args, coll, nowv)) = "none"

VoteWindowEnd(args, nowv) ==
    IF args.debug_vote THEN nowv + DebugVoteMinutes
    ELSE Midnight(nowv + DEFAULT_COLLECT_RANGE * DAY)

ExpectedCandidates(args, nowv) ==
    generate_schedule_dates(nowv, None, args.start_date, args.end_date, args.schedule_range,
                            Some(Aware(VoteWindowEnd(args, nowv))),
                            args.filter_type, args.timezone).dates

SessionsOf(guild) == {i \in 1..Len(collecting) : GuildOf(collecting[i]) = guild}

(***************************************************************************)
(* C12.  A start request that passed the validations and has between one   *)
(* candidate and ReactionCapacity candidates ends, unless a collaborator   *)
(* failed, by returning, with exactly one session of its community in the  *)
(* registry that holds the candidates in order and whose poll carries one  *)
(* reaction for each candidate; a request with no candidate or with more   *)
(* than ReactionCapacity candidates registers nothing and posts no poll.   *)
(***************************************************************************)
ValidRequestRegisters ==
    \A r \in ReqIds :
        LET f == reqs[r]
            n == Len(ExpectedCandidates(f.args, T0))
        IN  (RequestEnded(f) /\ f.exc # "IOError" /\ PassesValidations(f.args, <<>>, T0)) =>
               IF n \in 1..ReactionCapacity
               THEN /\ f.pc = "done" /\ f.resp = "none"
                    /\ \E i \in SessionsOf(f.args.guild) :
                          /\ SessionsOf(f.args.guild) = {i}
                          /\ [k \in 1..n |-> collecting[i].dates[k].t]
                                = [k \in 1..n |-> ExpectedCandidates(f.args, T0)[k].t]
                          /\ Len(PollOf(collecting[i]).reactions) = n
               ELSE /\ SessionsOf(f.args.guild) = {}
                    /\ \A m \in MsgIds : ~msgs[m].exists


(***************************************************************************)
(* C13.  A start request with an end date and a range length is answered   *)
(* ConflictingParameters; a request that is valid in everything else and   *)
(* has exactly one of the two is accepted: schedule() goes on to post the  *)
(* poll.                                                                   *)
(***************************************************************************)
OtherwiseValid(args, coll, nowv) ==
    /\ args.guild # "None"
    /\ \A i \in 1..Len(coll) : coll[i].interaction.guild # args.guild
    /\ args.filter_type = "all"
    /\ Supplied(args.start_date) /\ ~Malformed(args.start_date)
    /\ Val(args.start_date).t >= nowv + DEFAULT_COLLECT_RANGE * DAY
    /\ Supplied(args.end_date) =>
          /\ ~Malformed(args.end_date)
          /\ Val(args.end_date).t > Val(args.start_date).t
    /\ ~HourOutOfRange(args.time_range_start) /\ ~HourOutOfRange(args.time_range_end)
    /\ args.time_range_start < args.time_range_end

EndOrRangeAccepted ==
    (/\ probe.fn = "schedule" /\ probe.applied
     /\ OtherwiseValid(probe.in.args, probe.in.coll, probe.in.now)) =>
        LET args == probe.in.args
        IN  /\ (Supplied(args.end_date) /\ Supplied(args.schedule_range))
                  => ScheduleOutcome = "ConflictingParameters"
            /\ (Supplied(args.end_date) # Supplied(args.schedule_range))
                  => probe.out.f.pc = "post"


(***************************************************************************)
(* C14.  generate returns exactly the days start+0 .. start+range-1 that   *)
(* pass the filter and are strictly later than the earliest day allowed    *)
(* (the end of the vote window when none is given), in ascending order     *)
(* and without duplicates; ten days from day 1 with filter all and the     *)
(* earliest day 5 are the days 6..10; fourteen days hold ten weekdays and  *)
(* four weekend days.                                                      *)
(***************************************************************************)
EarliestAllowed(e) ==
    IF IsNone(e) THEN Midnight(T0 + DEFAULT_COLLECT_RANGE * DAY) ELSE Val(e).t

DaysExpected(in) ==
    {Midnight(in.start.t) + i * DAY : i \in 0..(in.range - 1)}
        \cap {t \in 0..((DaysPerWeek + MaxRange + 1) * DAY) :
                 ApplyFilter(in.filter, t) /\ t > EarliestAllowed(in.earliest)}

GenerateExactDays ==
    (probe.fn = "generate" /\ probe.applied) =>
        LET dates == probe.out.dates
        IN  /\ probe.out.exc = "none"
            /\ {dates[k].t : k \in 1..Len(dates)} = DaysExpected(probe.in)
            /\ \A k \in 1..(Len(dates) - 1) : dates[k].t < dates[k + 1].t
            /\ (probe.in.start.t \div DAY = 1 /\ probe.in.range = 10
                /\ probe.in.filter = "all" /\ EarliestAllowed(probe.in.earliest) = 5 * DAY)
                  => [k \in 1..Len(dates) |-> dates[k].t \div DAY] = <<6, 7, 8, 9, 10>>
            /\ (probe.in.range = 14 /\ probe.in.earliest = Some(Aware(0))) =>
                  /\ probe.in.filter = "weekday" => Len(dates) = 10
                  /\ probe.in.filter = "weekend" => Len(dates) = 4


(***************************************************************************)
(* C15.  A call of schedule() for a community that has a registered        *)
(* session answers AlreadyCollecting and writes nothing: the registry, the *)
(* messages and their reactions, the cog's attributes, the events and the  *)
(* presence are as before, at the call and when the answer has been sent.  *)
(* A call for a community without a session is not answered                *)
(* AlreadyCollecting.                                                      *)
(***************************************************************************)
ScheduleCalled(r) == Finished(reqs[r]) /\ reqs'[r] # reqs[r]
Rejected(f) == f.pc = "respond" /\ f.resp = "AlreadyCollecting"

AlreadyCollectingNoEffect ==
    [][\A r \in ReqIds :
          /\ ScheduleCalled(r) =>
                IF SessionsOf(reqs'[r].args.guild) # {}
                THEN /\ Rejected(reqs'[r])
                     /\ UNCHANGED <<collecting, msgs, cog, events, presence>>
                ELSE reqs'[r].resp # "AlreadyCollecting"
          /\ (Rejected(reqs[r]) /\ reqs'[r] # reqs[r]) =>
                /\ reqs'[r].pc \in {"done", "raised"}
                /\ UNCHANGED <<collecting, msgs, cog, events, presence>>]_vars

\* a request rejected and answered, the registry holding a session of each community
RejectedAndAnswered ==
    /\ reqs[1].pc = "done" /\ reqs[1].resp = "AlreadyCollecting"
    /\ SessionsOf(reqs[1].args.guild) # {}
    /\ Len(collecting) = 2


(***************************************************************************)
(* C16.  When two sessions of different communities are due as an          *)
(* iteration of the loop begins (the first of the registry is being        *)
(* aggregated and the second has an earlier end of vote window), then the  *)
(* step that ends the aggregation of the first leaves the same iteration   *)
(* aggregating the second.                                                 *)
(***************************************************************************)
TickAggregatesNextDue ==
    [][(/\ Aggregating(tick)
        /\ CompletesAggregation(1)
        /\ tick.k = 1 /\ tick.k < Len(collecting)
        /\ collecting[tick.k + 1].collect_end_date.t <= Val(tick.st).collect_end_date.t
        /\ GuildOf(collecting[tick.k + 1]) # GuildOf(Val(tick.st)))
          => /\ Aggregating(tick')
             /\ tick'.st = Some(collecting[tick.k + 1])]_vars


(***************************************************************************)
(* C17.  The step in which an iteration of the loop visits a session       *)
(* invokes its aggregation if and only if now is later than the end of its *)
(* vote window; at the end of the window itself and before it, the status  *)
(* collaborator is invoked instead, and the step that resumes from it      *)
(* leaves registry, messages and events as they are and shows the days     *)
(* that remain.                                                            *)
(***************************************************************************)
Visits == tick'.k = tick.k + 1
Visited == Val(tick'.st)

AggregatesOnlyAfterWindow ==
    [][/\ Visits =>
             /\ Visited = collecting[tick'.k]
             /\ tick'.pc \in {"agg_presence", "tick_presence"}
             /\ tick'.pc = "agg_presence" <=> now > Visited.collect_end_date.t
             /\ UNCHANGED <<collecting, msgs, events>>
       /\ (tick.pc = "tick_presence" /\ tick' # tick) =>
             /\ UNCHANGED <<collecting, msgs, events>>
             /\ tick'.pc # "raised" =>
                   presence' = Dnd((Val(tick.st).collect_end_date.t - now) \div DAY)]_vars

\* a session visited at the very end of its vote window: not aggregated
VisitedAtWindowEnd ==
    /\ tick.pc = "tick_presence"
    /\ now = Val(tick.st).collect_end_date.t

\* C17 as the specification words it: aggregation if and only if now >= the
\* end of the vote window.
AggregatesFromWindowEnd ==
    [][Visits => (tick'.pc = "agg_presence" <=> now >= Visited.collect_end_date.t)]_vars


(***************************************************************************)
(* C18.  A poll message shows the final counts only when the event of its  *)
(* session has been published: the edit of the poll comes after the        *)
(* publisher has succeeded, so a poll whose aggregation ended with a       *)
(* failed or rejected event request is still unedited.                     *)
(***************************************************************************)
PublishedFor(m) == \E i \in 1..Len(events) : events[i].poll = m

PollEditedAfterPublisher ==
    /\ \A m \in DOMAIN msgs : msgs[m].kind = "result" => PublishedFor(m)
    /\ \A slot \in AggSlots :
          LET f == FrameOf(slot)
          IN  (AggregationEnded(f) /\ f.pc = "raised"
                  /\ ~PublishedFor(Val(f.st).hooked_message)) =>
                 PollOf(Val(f.st)).kind = "poll"


(***************************************************************************)
(* C19.  Under fair ticking: a session whose aggregation has failed, in an *)
(* iteration of the loop or in a manual aggregation, and that is still     *)
(* registered, is aggregated again by the loop later on.                   *)
(***************************************************************************)
FailedAggregationOf(i) ==
    \E slot \in AggSlots :
        LET f == FrameOf(slot)
        IN  /\ AggregationEnded(f) /\ f.pc = "raised"
            /\ Val(f.st).oid = i
            /\ Registered(Val(f.st), collecting)

FailedSessionRetried ==
    \A i \in 1..2 :
        FailedAggregationOf(i) ~> (Aggregating(tick) /\ Val(tick.st).oid = i)


(***************************************************************************)
(* C20.  Removing a session from the registry raises no error, leaves the  *)
(* registry as it is when the session is not in it, takes the session out  *)
(* when it is, and removing it a second time changes nothing more.         *)
(***************************************************************************)
RemoveIdempotent ==
    (probe.fn = "remove" /\ probe.applied) =>
        LET coll == probe.in.coll
            st == probe.in.status
            again == RemoveStatus(probe.out.list, st)
        IN  /\ probe.out.exc = "none"
            /\ ~Registered(st, coll) => probe.out.list = coll
            /\ ~Registered(st, probe.out.list)
            /\ again.exc = "none" /\ again.list = probe.out.list


(***************************************************************************)
(* C22.  In every aggregation that fetches a poll carrying reactions, the  *)
(* winner index computed from the fetched counts is an index of the        *)
(* session's candidates, 0 <= winner < number of candidates, and no        *)
(* aggregation ends with an IndexError.                                    *)
(***************************************************************************)
WinnerOf(st) == MaxReactionDateIndex(ReactionResult(PollOf(st).reactions))

WinnerIndexValid ==
    \A slot \in AggSlots :
        LET f == FrameOf(slot)
        IN  /\ (Aggregating(f) /\ f.pc = "agg_fetch" /\ PollOf(Val(f.st)).reactions # <<>>) =>
                  /\ WinnerOf(Val(f.st)).exc = "none"
                  /\ WinnerOf(Val(f.st)).index \in 0..(Len(Val(f.st).dates) - 1)
            /\ AggregationEnded(f) => f.exc # "IndexError"


(***************************************************************************)
(* C24.  A manual aggregation called without a message id from community X *)
(* aggregates only a session of X: the session handed to addUpVotes        *)
(* belongs to X, and when the registry holds no session of X no session is *)
(* aggregated at all.                                                      *)
(***************************************************************************)
Untargeted(f) ==
    /\ f.pc # "idle"
    /\ f.args.text_channel /\ f.args.guild # "None"
    /\ IsNone(f.args.message_id)

ManualAggregationOwnCommunity ==
    \A a \in AddupIds :
        LET f == adds[a]
        IN  Untargeted(f) =>
               /\ ~IsNone(f.st) => GuildOf(Val(f.st)) = f.args.guild
               /\ SessionsOf(f.args.guild) = {} => IsNone(f.st)

====
